---- MODULE Spec2Model ----
(***************************************************************************)
(* Model of the log-analysis pipeline (03-check_logs: core.py, main.py)    *)
(* and of the contact store (04-assistant: core.py).                       *)
(*                                                                         *)
(* Text is a sequence of pieces.  A piece [s |-> a, n |-> k] stands for k  *)
(* characters: for an ordinary atom a (a word, a blank, a newline) k is    *)
(* the atom's length; for a = "x" it is a run of k letters x.  This keeps  *)
(* the real LINE_MAX_SIZE while the state stays small.  The lines of the   *)
(* model are such that readline cuts a line only inside a run of x.        *)
(***************************************************************************)
EXTENDS Integers, Sequences, FiniteSets, TLC

VARIABLES
    argv,         \* sys.argv
    pc,           \* position of main()
    file_path,    \* main's local
    level,        \* main's local (None when absent)
    fhOpen,       \* the file handle of load_logs is open
    rest,         \* unread remainder of the physical line being read
    fileLine,     \* physical lines of the file handed out so far (history)
    lastLine,     \* the last physical line had no newline: end-of-file follows
    line_number,  \* load_logs' local
    records,      \* load_logs' local, then main's local
    warnings,     \* logging.warning calls, in order; with each, the physical
                  \* line the text came from and whether it was that line's start
    parsed,       \* the latest call of parse_log_line: its tokens and outcome
    exc,          \* exception that left load_logs / display_log_counts
    loadResult,   \* how far the call of load_logs got (history)
    counts,       \* main's local: the dict, as (level, count) pairs in insertion order
    out,          \* lines printed to standard output
    ret,          \* what main() returned
    exitStatus,   \* exit status of the process
    persons,      \* 04-assistant: the module-level store
    last          \* 04-assistant: the latest call and its result

vars == << argv, pc, file_path, level, fhOpen, rest, fileLine, lastLine,
           line_number, records, warnings, parsed, exc, loadResult, counts, out,
           ret, exitStatus, persons, last >>

logVars == << argv, pc, file_path, level, fhOpen, rest, fileLine, lastLine,
              line_number, records, warnings, parsed, exc, loadResult, counts, out,
              ret, exitStatus >>

-----------------------------------------------------------------------------
(* Bounds of the model *)

MaxLines == 3

MaxArgs == 3

MaxValueLen == 2

-----------------------------------------------------------------------------
(* Program constants *)

LINE_MAX_SIZE == 10000

LOG_LEVELS == <<"DEBUG", "INFO", "WARNING", "ERROR">>

LOG_COLUMN_COUNT == 4

DATETIME_FORMAT == "%Y-%m-%d %H:%M:%S"

COLUMN_NAMES == <<"Log Level", "Count">>

ARGS_MIN_COUNT == 1

ARGS_MAX_COUNT == 2

None == "<None>"

NoExc == [type |-> "none", msg |-> "", path |-> "", context |-> ""]

Range(s) == {s[i] : i \in DOMAIN s}

-----------------------------------------------------------------------------
(* Text *)

\* len() of the strings the model uses
StrLen(a) ==
    CASE a \in {" ", "\n"} -> 1
      [] a \in {"msg", "bad"} -> 3
      [] a \in {"INFO", "info", "line"} -> 4
      [] a \in {"DEBUG", "ERROR", "TRACE", "Count"} -> 5
      [] a = "WARNING" -> 7
      [] a \in {"2024-1-1", "10:00:00"} -> 8
      [] a = "Log Level" -> 9
      [] a \in {"2024-01-01", "2024-13-01"} -> 10
      [] OTHER -> 1

W(a) == [s |-> a, n |-> StrLen(a)]

XRun(k) == [s |-> "x", n |-> k]

SP == W(" ")

NL == W("\n")

\* the first k characters of t (a piece that straddles the cut is cut)
RECURSIVE TakeChars(_, _)
TakeChars(t, k) ==
    IF t = <<>> \/ k = 0 THEN <<>>
    ELSE IF Head(t).n <= k
         THEN <<Head(t)>> \o TakeChars(Tail(t), k - Head(t).n)
         ELSE << [Head(t) EXCEPT !.n = k] >>

RECURSIVE DropChars(_, _)
DropChars(t, k) ==
    IF t = <<>> \/ k = 0 THEN t
    ELSE IF Head(t).n <= k
         THEN DropChars(Tail(t), k - Head(t).n)
         ELSE << [Head(t) EXCEPT !.n = @ - k] >> \o Tail(t)

\* fh.readline(size) on the unread text t of one physical line: at most size
\* characters, the newline (the last piece, when present) included
readline(t, size) == TakeChars(t, size)

IsSpace(p) == p.s \in {" ", "\n"}

\* str.rstrip("\r\n")
RECURSIVE rstrip(_)
rstrip(t) ==
    IF t = <<>> THEN <<>>
    ELSE IF t[Len(t)].s = "\n" THEN rstrip(SubSeq(t, 1, Len(t) - 1))
    ELSE t

RECURSIVE SkipSpace(_)
SkipSpace(t) ==
    IF t = <<>> THEN <<>>
    ELSE IF IsSpace(Head(t)) THEN SkipSpace(Tail(t)) ELSE t

\* number of leading pieces of t that are not whitespace
RECURSIVE WordEnd(_)
WordEnd(t) ==
    IF t = <<>> THEN 0
    ELSE IF IsSpace(Head(t)) THEN 0 ELSE 1 + WordEnd(Tail(t))

\* str.split(maxsplit=m) with no separator: words split on runs of whitespace;
\* after m splits the remainder, leading whitespace skipped, is the last item
RECURSIVE split(_, _)
split(t, m) ==
    LET u == SkipSpace(t) IN
    IF u = <<>> THEN <<>>
    ELSE IF m = 0 THEN <<u>>
    ELSE LET e == WordEnd(u) IN
         <<SubSeq(u, 1, e)>> \o split(SubSeq(u, e + 1, Len(u)), m - 1)

\* a token that is exactly the string a
TokenIs(tok, a) == Len(tok) = 1 /\ tok[1].s = a /\ tok[1].n = StrLen(a)

IsDate(tok) == TokenIs(tok, "2024-01-01") \/ TokenIs(tok, "2024-1-1")

IsTime(tok) == TokenIs(tok, "10:00:00")

\* datetime.strptime(f"{d} {t}", DATETIME_FORMAT): the date-time, or a ValueError
strptime(d, t) ==
    IF IsDate(d) /\ IsTime(t)
    THEN [ok |-> TRUE, dt |-> "2024-01-01 10:00:00"]
    ELSE [ok |-> FALSE, dt |-> ""]

\* the string a token is, for the strings that matter to the level test
TokenStr(tok) ==
    IF Len(tok) = 1 /\ tok[1].n = StrLen(tok[1].s) /\ tok[1].s # "x"
    THEN tok[1].s ELSE "<other>"

E_INCOMPLETE == "Incomplete set of columns."

E_DATETIME == "Date/time columns have invalid format or value."

E_LEVEL == "Log level column has invalid value."

NoRecord == [datetime |-> "", level |-> "", message |-> <<>>]

\* a parser that compares the level without regard to case
parse_log_line_ci(line) ==
    LET record == split(rstrip(line), LOG_COLUMN_COUNT - 1) IN
    IF Len(record) < LOG_COLUMN_COUNT
    THEN [tokens |-> record, err |-> E_INCOMPLETE, rec |-> NoRecord]
    ELSE LET dt == strptime(record[1], record[2]) IN
         IF ~dt.ok
         THEN [tokens |-> record, err |-> E_DATETIME, rec |-> NoRecord]
         ELSE IF TokenStr(record[3]) \notin {"DEBUG", "INFO", "WARNING", "ERROR", "info"}
         THEN [tokens |-> record, err |-> E_LEVEL, rec |-> NoRecord]
         ELSE [tokens |-> record, err |-> "",
               rec |-> [datetime |-> dt.dt, level |-> TokenStr(record[3]),
                        message |-> record[4]]]

\* parse_log_line: the record, or the message of the ValueError raised
parse_log_line(line) ==
    LET record == split(rstrip(line), LOG_COLUMN_COUNT - 1) IN
    IF Len(record) < LOG_COLUMN_COUNT
    THEN [tokens |-> record, err |-> E_INCOMPLETE, rec |-> NoRecord]
    ELSE LET dt == strptime(record[1], record[2]) IN
         IF ~dt.ok
         THEN [tokens |-> record, err |-> E_DATETIME, rec |-> NoRecord]
         ELSE IF TokenStr(record[3]) \notin {"DEBUG", "INFO", "WARNING", "ERROR"}
         THEN [tokens |-> record, err |-> E_LEVEL, rec |-> NoRecord]
         ELSE [tokens |-> record, err |-> "",
               rec |-> [datetime |-> dt.dt, level |-> TokenStr(record[3]),
                        message |-> record[4]]]

-----------------------------------------------------------------------------
(* Aggregation, filter, table *)

filter_logs_by_level(logs, lvl) == SelectSeq(logs, LAMBDA r : r.level = lvl)

HasKey(d, k) == \E i \in DOMAIN d : d[i][1] = k

\* results[k] += 1 on a defaultdict(int): a missing key is created with 0 first
Incr(d, k) ==
    IF HasKey(d, k)
    THEN [i \in DOMAIN d |-> IF d[i][1] = k THEN <<k, d[i][2] + 1>> ELSE d[i]]
    ELSE Append(d, <<k, 0 + 1>>)

RECURSIVE CountFrom(_, _)
CountFrom(d, logs) ==
    IF logs = <<>> THEN d ELSE CountFrom(Incr(d, Head(logs).level), Tail(logs))

\* an aggregation that starts from every level with count 0
count_logs_by_level_seeded(logs) ==
    CountFrom([i \in DOMAIN LOG_LEVELS |-> <<LOG_LEVELS[i], 0>>], logs)

count_logs_by_level(logs) == CountFrom(<<>>, logs)

\* place item x in the descending-sorted s behind every item whose count is
\* not smaller: items of equal count keep their order
RECURSIVE InsertDesc(_, _)
InsertDesc(s, x) ==
    IF s = <<>> THEN <<x>>
    ELSE IF Head(s)[2] >= x[2] THEN <<Head(s)>> \o InsertDesc(Tail(s), x)
    ELSE <<x>> \o s

RECURSIVE SortFrom(_, _)
SortFrom(acc, items) ==
    IF items = <<>> THEN acc ELSE SortFrom(InsertDesc(acc, Head(items)), Tail(items))

Reverse(s) == [i \in DOMAIN s |-> s[Len(s) + 1 - i]]

\* an ascending stable sort, reversed: equal counts come out in reverse order
sorted_desc_reversed(items) ==
    LET neg == [i \in DOMAIN items |-> <<items[i][1], 0 - items[i][2]>>]
        asc == SortFrom(<<>>, neg)
    IN  Reverse([i \in DOMAIN asc |-> <<asc[i][1], 0 - asc[i][2]>>])

\* sorted(counts.items(), key=lambda item: item[1], reverse=True): stable
sorted_desc(items) == SortFrom(<<>>, items)

RECURSIVE MaxOf(_)
MaxOf(S) ==
    LET x == CHOOSE y \in S : TRUE IN
    IF S = {x} THEN x
    ELSE LET m == MaxOf(S \ {x}) IN IF x > m THEN x ELSE m

\* what display_log_counts prints, or the ValueError of max() on no items
display_log_counts(cnts) ==
    LET srt == sorted_desc(cnts) IN
    IF srt = <<>>
    THEN [err |-> "max() arg is an empty sequence", lines |-> <<>>]
    ELSE LET width == MaxOf({StrLen(COLUMN_NAMES[1])}
                            \cup {StrLen(srt[i][1]) : i \in DOMAIN srt}) + 1
         IN [err |-> "",
             lines |-> << [k |-> "header", width |-> width],
                          [k |-> "rule", width |-> width] >>
                       \o [i \in DOMAIN srt |->
                             [k |-> "row", level |-> srt[i][1], count |-> srt[i][2],
                              width |-> width]]]

-----------------------------------------------------------------------------
(* main.py: arguments *)

\* truth value of an argument: None and the empty string are false
Truthy(a) == a # None /\ a # ""

\* str.upper() on the argument strings of the model
upper(a) ==
    CASE a = "error" -> "ERROR"
      [] a = "info" -> "INFO"
      [] a = "test.log" -> "TEST.LOG"
      [] OTHER -> a

ArgsOk(fp, lv) == [err |-> "", file_path |-> fp, level |-> lv]

ArgsError(m) == [err |-> m, file_path |-> None, level |-> None]

\* parse_args: (file_path, level), or the message of the ValueError raised
parse_args(av) ==
    LET args == Tail(av) IN
    IF Len(args) < ARGS_MIN_COUNT \/ Len(args) > ARGS_MAX_COUNT
    THEN ArgsError("Wrong number of arguments.")
    ELSE LET ext == args \o [i \in 1..(ARGS_MAX_COUNT - Len(args)) |-> None] IN
         IF Truthy(ext[2])
         THEN IF upper(ext[2]) \in Range(LOG_LEVELS)
              THEN ArgsOk(ext[1], upper(ext[2]))
              ELSE ArgsError("Log level value is invalid.")
         ELSE ArgsOk(ext[1], ext[2])

-----------------------------------------------------------------------------
(* Inputs *)

Paths == {"test.log"}

LevelArgs == {"INFO", "error", "TRACE", ""}

\* the command lines: the script name, then up to MaxArgs arguments
ArgLists ==
    UNION { { a \in [1..n -> Paths \cup LevelArgs] :
                \A i \in 1..n : (i = 1) <=> (a[i] \in Paths) } : n \in 0..MaxArgs }

Well(lv) == << W("2024-01-01"), SP, W("10:00:00"), SP, W(lv), SP, W("msg") >>

\* the physical lines a file is made of, without their newline
Lines ==
    { Well("INFO"), Well("ERROR"), Well("WARNING"),
      \* blanks in front and between, a short date, a message of two words
      << SP, W("2024-1-1"), SP, SP, W("10:00:00"), SP, W("DEBUG"), SP,
         W("msg"), SP, W("msg") >>,
      << W("bad"), SP, W("line") >>,
      << >>,
      << W("2024-01-01"), SP, W("10:00:00"), SP, W("TRACE") >>,
      Well("TRACE"),
      Well("info"),
      << W("2024-13-01"), SP, W("10:00:00"), SP, W("INFO"), SP, W("msg") >>,
      << W("2024-13-01"), SP, W("10:00:00"), SP, W("TRACE"), SP, W("msg") >>,
      \* longer than LINE_MAX_SIZE
      << XRun(LINE_MAX_SIZE + 50) >>,
      << W("2024-01-01"), SP, W("10:00:00"), SP, W("INFO"), SP, XRun(LINE_MAX_SIZE) >> }

-----------------------------------------------------------------------------
(* The run of main.py *)

\* the empty dict
EmptyStore == [n \in {} |-> 0]

InitRest ==
    /\ pc = "start"
    /\ file_path = None
    /\ level = None
    /\ fhOpen = FALSE
    /\ rest = <<>>
    /\ fileLine = 0
    /\ lastLine = FALSE
    /\ line_number = 0
    /\ records = <<>>
    /\ warnings = <<>>
    /\ parsed = [called |-> FALSE, tokens |-> <<>>, err |-> ""]
    /\ exc = NoExc
    /\ loadResult = "none"
    /\ counts = <<>>
    /\ out = <<>>
    /\ ret = "unset"
    /\ exitStatus = 0
    /\ persons = EmptyStore
    /\ last = [op |-> "none", name |-> "", err |-> FALSE, text |-> ""]

Init ==
    /\ argv \in { <<"main.py">> \o a : a \in ArgLists }
    /\ InitRest

\* main.py 50-55: parse the arguments; on a ValueError print it and return -1
MainParseArgs ==
    /\ pc = "start"
    /\ LET r == parse_args(argv) IN
       IF r.err # ""
       THEN /\ out' = Append(out, [k |-> "argerror", msg |-> r.err])
            /\ ret' = "-1"
            /\ pc' = "returned"
            /\ UNCHANGED << file_path, level >>
       ELSE /\ file_path' = r.file_path
            /\ level' = r.level
            /\ pc' = "load"
            /\ UNCHANGED << out, ret >>
    /\ UNCHANGED << argv, loadResult, fhOpen, rest, fileLine, lastLine, line_number, records,
                    warnings, parsed, exc, counts, exitStatus, persons, last >>

\* core.py 27-30, 40-41: open the file; an OSError is raised again with the path
LoadOpen ==
    /\ pc = "load"
    /\ records' = <<>>
    /\ line_number' = 0
    /\ \/ /\ fhOpen' = TRUE
          /\ pc' = "reading"
          /\ exc' = exc
          /\ loadResult' = "reading"
       \/ /\ fhOpen' = FALSE
          /\ pc' = "load_raised"
          /\ loadResult' = "unreadable"
          /\ exc' = [type |-> "OSError", msg |-> "File can't be read.",
                     path |-> file_path, context |-> "OSError"]
    /\ UNCHANGED << argv, file_path, level, rest, fileLine, lastLine, warnings,
                    parsed, counts, out, ret, exitStatus, persons, last >>

\* core.py 33-39: one pass of the loop body on the text readline returned
LoadStep(chunk, fl, first) ==
    LET p == parse_log_line(chunk) IN
    /\ line_number' = line_number + 1
    /\ parsed' = [called |-> TRUE, tokens |-> p.tokens, err |-> p.err]
    /\ IF p.err = ""
       THEN /\ records' = Append(records, p.rec)
            /\ warnings' = warnings
       ELSE /\ warnings' = Append(warnings,
                              [line |-> line_number + 1, reason |-> p.err,
                               fileLine |-> fl, first |-> first])
            /\ records' = records

\* core.py 32: readline reaches a new physical line of the file
LoadReadNewLine ==
    /\ pc = "reading"
    /\ rest = <<>>
    /\ ~lastLine
    /\ fileLine < MaxLines
    /\ \E l \in Lines, nl \in BOOLEAN :
          LET text == IF nl THEN Append(l, NL) ELSE l IN
          /\ text # <<>>
          /\ fileLine' = fileLine + 1
          /\ lastLine' = ~nl
          /\ rest' = DropChars(text, LINE_MAX_SIZE)
          /\ LoadStep(readline(text, LINE_MAX_SIZE), fileLine + 1, TRUE)
    /\ UNCHANGED << argv, loadResult, pc, file_path, level, fhOpen, exc, counts, out, ret,
                    exitStatus, persons, last >>

\* core.py 32: readline goes on in a physical line longer than LINE_MAX_SIZE
LoadReadRest ==
    /\ pc = "reading"
    /\ rest # <<>>
    /\ rest' = DropChars(rest, LINE_MAX_SIZE)
    /\ LoadStep(readline(rest, LINE_MAX_SIZE), fileLine, FALSE)
    /\ UNCHANGED << argv, loadResult, pc, file_path, level, fhOpen, fileLine, lastLine, exc,
                    counts, out, ret, exitStatus, persons, last >>

\* core.py 32, 45: readline returns "", the file is closed, the records returned
LoadEof ==
    /\ pc = "reading"
    /\ loadResult' = "returned"
    /\ rest = <<>>
    /\ fhOpen' = FALSE
    /\ pc' = "loaded"
    /\ UNCHANGED << argv, file_path, level, rest, fileLine, lastLine, line_number,
                    records, warnings, parsed, exc, counts, out, ret, exitStatus,
                    persons, last >>

\* text is left to read
MoreToRead == rest # <<>> \/ (~lastLine /\ fileLine < MaxLines)

\* the exception that leaves load_logs when decoding fails: UnicodeDecodeError
\* takes five arguments, so building it with one raises a TypeError instead
DecodeErrorRaised(fp) ==
    [type |-> "TypeError", msg |-> "function takes exactly 5 arguments (1 given)",
     path |-> "", context |-> "UnicodeDecodeError"]

\* a load that swallows the decoding failure and returns what it has read
LoadDecodeError_swallowed ==
    /\ pc = "reading"
    /\ loadResult' = "bad_encoding"
    /\ MoreToRead
    /\ fhOpen' = FALSE
    /\ pc' = "loaded"
    /\ UNCHANGED << argv, file_path, level, rest, fileLine, lastLine, line_number,
                    records, warnings, parsed, exc, counts, out, ret, exitStatus,
                    persons, last >>

\* core.py 42-43: decoding fails in readline
LoadDecodeError ==
    /\ pc = "reading"
    /\ loadResult' = "bad_encoding"
    /\ MoreToRead
    /\ fhOpen' = FALSE
    /\ records' = <<>>
    /\ exc' = DecodeErrorRaised(file_path)
    /\ pc' = "load_raised"
    /\ UNCHANGED << argv, file_path, level, rest, fileLine, lastLine, line_number,
                    warnings, parsed, counts, out, ret, exitStatus, persons, last >>

\* core.py 40-41: reading fails with an OSError
LoadReadError ==
    /\ pc = "reading"
    /\ loadResult' = "unreadable"
    /\ MoreToRead
    /\ fhOpen' = FALSE
    /\ records' = <<>>
    /\ exc' = [type |-> "OSError", msg |-> "File can't be read.", path |-> file_path,
               context |-> "OSError"]
    /\ pc' = "load_raised"
    /\ UNCHANGED << argv, file_path, level, rest, fileLine, lastLine, line_number,
                    warnings, parsed, counts, out, ret, exitStatus, persons, last >>

\* main.py 60: the exceptions main catches around load_logs
CaughtByMain == {"OSError", "UnicodeDecodeError", "ValueError"}

\* main.py 60-62: print the load error and return -1
MainOnLoadError ==
    /\ pc = "load_raised"
    /\ exc.type \in CaughtByMain
    /\ out' = Append(out, [k |-> "loaderror", msg |-> exc.msg, path |-> exc.path])
    /\ ret' = "-1"
    /\ pc' = "returned"
    /\ UNCHANGED << argv, loadResult, file_path, level, fhOpen, rest, fileLine, lastLine,
                    line_number, records, warnings, parsed, exc, counts, exitStatus,
                    persons, last >>

\* main.py 58-62: an exception main does not catch ends the run with a traceback
MainUncaught ==
    /\ pc = "load_raised"
    /\ exc.type \notin CaughtByMain
    /\ pc' = "crashed"
    /\ UNCHANGED << argv, loadResult, file_path, level, fhOpen, rest, fileLine, lastLine,
                    line_number, records, warnings, parsed, exc, counts, out, ret,
                    exitStatus, persons, last >>

\* main.py 65
MainCount ==
    /\ pc = "loaded"
    /\ counts' = count_logs_by_level(records)
    /\ pc' = "display"
    /\ UNCHANGED << argv, loadResult, file_path, level, fhOpen, rest, fileLine, lastLine,
                    line_number, records, warnings, parsed, exc, out, ret,
                    exitStatus, persons, last >>

\* main.py 68: print the table; the ValueError of an empty table is not caught
MainDisplay ==
    /\ pc = "display"
    /\ LET d == display_log_counts(counts) IN
       IF d.err # ""
       THEN /\ exc' = [type |-> "ValueError", msg |-> d.err, path |-> "", context |-> ""]
            /\ pc' = "crashed"
            /\ out' = out
       ELSE /\ out' = out \o d.lines
            /\ pc' = "details"
            /\ exc' = exc
    /\ UNCHANGED << argv, loadResult, file_path, level, fhOpen, rest, fileLine, lastLine,
                    line_number, records, warnings, parsed, counts, ret, exitStatus,
                    persons, last >>

\* main.py 71-74: the detail view, when a level was given; main returns None
MainDetails ==
    /\ pc = "details"
    /\ IF Truthy(level)
       THEN LET sel == filter_logs_by_level(records, level) IN
            out' = out \o << [k |-> "details", level |-> level] >>
                       \o [i \in DOMAIN sel |->
                             [k |-> "detail", datetime |-> sel[i].datetime,
                              message |-> sel[i].message]]
       ELSE out' = out
    /\ ret' = "None"
    /\ pc' = "returned"
    /\ UNCHANGED << argv, loadResult, file_path, level, fhOpen, rest, fileLine, lastLine,
                    line_number, records, warnings, parsed, exc, counts, exitStatus,
                    persons, last >>

\* main.py 77-78: the script calls main() and drops what it returns
ScriptExitStatus(r) == 0

\* the interpreter's exit status after an uncaught exception
TracebackExitStatus == 1

\* main.py 78: the process ends
ProcessExit ==
    /\ pc \in {"returned", "crashed"}
    /\ exitStatus' = IF pc = "crashed" THEN TracebackExitStatus ELSE ScriptExitStatus(ret)
    /\ pc' = "exited"
    /\ UNCHANGED << argv, loadResult, file_path, level, fhOpen, rest, fileLine, lastLine,
                    line_number, records, warnings, parsed, exc, counts, out, ret,
                    persons, last >>

Next ==
    \/ MainParseArgs
    \/ LoadOpen
    \/ LoadReadNewLine
    \/ LoadReadRest
    \/ LoadEof
    \/ LoadDecodeError
    \/ LoadReadError
    \/ MainOnLoadError
    \/ MainUncaught
    \/ MainCount
    \/ MainDisplay
    \/ MainDetails
    \/ ProcessExit

Spec == Init /\ [][Next]_vars

-----------------------------------------------------------------------------
(* 04-assistant/core.py: the contact store *)

E_INVALID_FORMAT == "Invalid phone format: only digits are allowed."

E_PERSON_NOT_EXISTS == "Specified person doesn't exist."

E_PHONE_DUPLICATE == "Specified phone number exists for another person."

E_ALREADY == "Phone number is already configured for this person. Use change command."

E_INT == "invalid literal for int() with base 10"

Names == {"ann", "bob", "cy"}

\* characters of a phone value: ASCII digits, a letter, SUPERSCRIPT TWO and
\* ARABIC-INDIC DIGIT SEVEN
Chars == {"0", "7", "a", "SUP2", "AR7"}

Values == UNION { [1..n -> Chars] : n \in 0..MaxValueLen }

\* str.isdigit(): not empty, and every character is a digit
isdigit(v) == v # <<>> /\ \A i \in DOMAIN v : v[i] \in {"0", "7", "SUP2", "AR7"}

\* value.isascii without the call: a bound method, which is true
isascii_attr(v) == TRUE

\* the characters int() reads as decimal digits
DigitValue(c) == CASE c = "0" -> 0 [] c \in {"7", "AR7"} -> 7 [] OTHER -> 0 - 1

RECURSIVE DecimalValue(_)
DecimalValue(v) ==
    IF v = <<>> THEN 0
    ELSE 10 * DecimalValue(SubSeq(v, 1, Len(v) - 1)) + DigitValue(v[Len(v)])

\* int(value): the number, or a ValueError
int(v) ==
    IF v # <<>> /\ \A i \in DOMAIN v : DigitValue(v[i]) >= 0
    THEN [ok |-> TRUE, n |-> DecimalValue(v)]
    ELSE [ok |-> FALSE, n |-> 0]

Raised(store, m) == [store |-> store, err |-> TRUE, text |-> m]

Returned(store, m) == [store |-> store, err |-> FALSE, text |-> m]

Put(store, name, n) ==
    [k \in DOMAIN store \cup {name} |-> IF k = name THEN n ELSE store[k]]

\* an add_contact without the test for a number another person holds
add_contact_nodup(store, name, value) ==
    IF name \in DOMAIN store THEN Raised(store, E_ALREADY)
    ELSE IF ~(isascii_attr(value) /\ isdigit(value)) THEN Raised(store, E_INVALID_FORMAT)
    ELSE LET phone_number == int(value) IN
         IF ~phone_number.ok THEN Raised(store, E_INT)
         ELSE Returned(Put(store, name, phone_number.n), "Phone contact added.")

\* add_contact under input_error: the store after the call and what it returned
add_contact(store, name, value) ==
    IF name \in DOMAIN store THEN Raised(store, E_ALREADY)
    ELSE IF ~(isascii_attr(value) /\ isdigit(value)) THEN Raised(store, E_INVALID_FORMAT)
    ELSE LET phone_number == int(value) IN
         IF ~phone_number.ok THEN Raised(store, E_INT)
         ELSE IF \E k \in DOMAIN store : store[k] = phone_number.n
         THEN Raised(store, E_PHONE_DUPLICATE)
         ELSE Returned(Put(store, name, phone_number.n), "Phone contact added.")

\* change_contact under input_error
change_contact(store, name, value) ==
    IF name \notin DOMAIN store THEN Raised(store, E_PERSON_NOT_EXISTS)
    ELSE IF ~(isascii_attr(value) /\ isdigit(value)) THEN Raised(store, E_INVALID_FORMAT)
    ELSE LET phone_number == int(value) IN
         IF ~phone_number.ok THEN Raised(store, E_INT)
         ELSE IF \E k \in DOMAIN store \ {name} : store[k] = phone_number.n
         THEN Raised(store, E_PHONE_DUPLICATE)
         ELSE Returned(Put(store, name, phone_number.n), "Phone contact updated.")

AddContact ==
    /\ \E name \in Names, value \in Values :
          LET r == add_contact(persons, name, value) IN
          /\ persons' = r.store
          /\ last' = [op |-> "add", name |-> name, err |-> r.err, text |-> r.text]
    /\ UNCHANGED logVars

ChangeContact ==
    /\ \E name \in Names, value \in Values :
          LET r == change_contact(persons, name, value) IN
          /\ persons' = r.store
          /\ last' = [op |-> "change", name |-> name, err |-> r.err, text |-> r.text]
    /\ UNCHANGED logVars

InitAssistant ==
    /\ argv = <<"main.py">>
    /\ InitRest

NextAssistant == AddContact \/ ChangeContact

SpecAssistant == InitAssistant /\ [][NextAssistant]_vars

-----------------------------------------------------------------------------
(* Properties *)

TablePrinted == \E i \in DOMAIN out : out[i].k \in {"header", "rule", "row"}

DetailPrinted == \E i \in DOMAIN out : out[i].k \in {"details", "detail"}

ArgErrorPrinted == \E i \in DOMAIN out : out[i].k = "argerror"

Rows == SelectSeq(out, LAMBDA o : o.k = "row")

LoadFailed == loadResult \in {"unreadable", "bad_encoding"}

\* C1: whenever load_logs returned normally (whatever lines it skipped, also
\* all of them or none), the run ends with the summary table printed and as a
\* success, no exception having ended it.
C1_MalformedNeverAborts ==
    (pc = "exited" /\ loadResult = "returned")
        => (TablePrinted /\ exitStatus = 0 /\ exc = NoExc)

\* C2: a run that printed the summary table exits with status 0; a run that
\* ended in an argument error or a load error exits with a non-zero status.
C2_ExitStatus ==
    pc = "exited"
        => /\ TablePrinted => exitStatus = 0
           /\ (ArgErrorPrinted \/ LoadFailed) => exitStatus # 0

\* C3: when decoding fails, load_logs raises a UnicodeDecodeError that carries
\* the path and returns no records, and main has reported that error with the
\* path, and printed no table, when the run ends.
C3_BadEncodingReported ==
    loadResult = "bad_encoding"
        => /\ exc.type = "UnicodeDecodeError"
           /\ exc.path = file_path
           /\ records = <<>>
           /\ pc = "exited"
                => /\ \E i \in DOMAIN out :
                         out[i].k = "loaderror" /\ out[i].path = file_path
                   /\ ~TablePrinted

\* C4: the warning for the k-th line of the file names line number k, also
\* when lines longer than LINE_MAX_SIZE come before it.
C4_WarningLineNumbers ==
    \A i \in DOMAIN warnings :
        warnings[i].first => warnings[i].line = warnings[i].fileLine

InvalidLevelToken(tok) == TokenStr(tok) \notin Range(LOG_LEVELS)

\* C5 as claimed: a line whose third token is not a valid level fails with the
\* invalid-level failure, whatever its other tokens are.
C5_InvalidLevelAlways ==
    (parsed.called /\ Len(parsed.tokens) >= 3 /\ InvalidLevelToken(parsed.tokens[3]))
        => parsed.err = E_LEVEL

\* C5 as amended: a line of four tokens whose first two tokens are a valid
\* date-time and whose third token is not a valid level fails with the
\* invalid-level failure.
C5_InvalidLevelAfterTimestamp ==
    (/\ parsed.called
     /\ Len(parsed.tokens) >= LOG_COLUMN_COUNT
     /\ strptime(parsed.tokens[1], parsed.tokens[2]).ok
     /\ InvalidLevelToken(parsed.tokens[3]))
        => parsed.err = E_LEVEL

C5_Witness ==
    /\ parsed.called
    /\ Len(parsed.tokens) = LOG_COLUMN_COUNT
    /\ strptime(parsed.tokens[1], parsed.tokens[2]).ok
    /\ TokenStr(parsed.tokens[3]) = "info"
    /\ parsed.err = E_LEVEL

\* position of the first record of level lv
FirstSeen(lv) ==
    CHOOSE i \in DOMAIN records :
        /\ records[i].level = lv
        /\ \A j \in 1..(i - 1) : records[j].level # lv

NumberOf(lv) == Cardinality({i \in DOMAIN records : records[i].level = lv})

\* C6: the rows of the summary table are one per level of the records, with the
\* number of its records, sorted by count descending, and rows of equal counts
\* are in the order in which their levels first occur in the records.
C6_SummaryOrder ==
    TablePrinted
        => /\ {Rows[i].level : i \in DOMAIN Rows} = {records[i].level : i \in DOMAIN records}
           /\ \A i \in DOMAIN Rows : Rows[i].count = NumberOf(Rows[i].level)
           /\ \A i, j \in DOMAIN Rows :
                 i < j => \/ Rows[i].count > Rows[j].count
                          \/ /\ Rows[i].count = Rows[j].count
                             /\ FirstSeen(Rows[i].level) < FirstSeen(Rows[j].level)

C6_Witness ==
    /\ pc = "details"
    /\ Len(Rows) = 3
    /\ Rows[1].level = "INFO"
    /\ Rows[2].level = "ERROR"
    /\ Rows[1].count = Rows[2].count

\* the invocations C7 is about: an argument count other than 1 or 2, or a second
\* argument that does not upper-case to a valid level
InvalidInvocation(av) ==
    LET n == Len(av) - 1 IN
    \/ n < 1
    \/ n > 2
    \/ n = 2 /\ upper(av[3]) \notin Range(LOG_LEVELS)

\* C7: after an invalid invocation load_logs is never called and the file is
\* never opened.
C7_ArgsBeforeFile ==
    InvalidInvocation(argv)
        => /\ loadResult = "none"
           /\ ~fhOpen

RECURSIVE SumCounts(_)
SumCounts(d) == IF d = <<>> THEN 0 ELSE Head(d)[2] + SumCounts(Tail(d))

\* C8: once the counts are built (and still when the table has been printed)
\* they sum to the number of records, hold no level with count 0 and hold
\* every level once.
C8_CountsSum ==
    (loadResult = "returned" /\ pc \in {"display", "details", "crashed", "returned", "exited"})
        => /\ SumCounts(counts) = Len(records)
           /\ \A i \in DOMAIN counts : counts[i][2] > 0
           /\ \A i, j \in DOMAIN counts : counts[i][1] = counts[j][1] => i = j

C8_Witness ==
    /\ pc = "details"
    /\ Len(records) = 3
    /\ Len(counts) = 2

\* C9: a line of the table or of the detail view is printed only when load_logs
\* has returned and closed the file, and none is printed in a run whose load
\* failed.
C9_BatchPipeline ==
    /\ (TablePrinted \/ DetailPrinted) => (loadResult = "returned" /\ ~fhOpen)
    /\ LoadFailed => (~TablePrinted /\ ~DetailPrinted)

C9_Witness ==
    /\ pc = "returned"
    /\ TablePrinted
    /\ \E i \in DOMAIN out : out[i].k = "detail"
    /\ Len(warnings) >= 1

UniquePhones == \A a, b \in DOMAIN persons : persons[a] = persons[b] => a = b

\* C10: no two persons hold the same phone number; add_contact never changes
\* the number of a person who has one; a call that returns an ERROR string
\* leaves the store as it was.
C10_ContactStore ==
    /\ []UniquePhones
    /\ [][ /\ (last'.op = "add" /\ last'.name \in DOMAIN persons) => persons' = persons
           /\ last'.err => persons' = persons ]_vars

C10_Witness ==
    /\ Cardinality(DOMAIN persons) = 2
    /\ last.op = "add"
    /\ last.text = E_PHONE_DUPLICATE

====
